---------------------------- MODULE Spec2Model ----------------------------
(***************************************************************************)
(* A model of the CURENT site-visit submission tools:                      *)
(*   SiteVisit.py          scan of the submission tree (generateList),     *)
(*                         duplicate check (findDuplicate), revision       *)
(*                         resolution (removeOldRevisions)                 *)
(*   SubmissionListDiff.py / ListDiff.py   comparison of two manifests     *)
(*                                                                         *)
(* Python strings are TLA+ strings (sequences of characters); a character  *)
(* is a string of length one.  The regular expressions of the source are   *)
(* modelled by operators that compute the match Python's re module finds   *)
(* (leftmost start, greedy quantifiers, backtracking).                     *)
(***************************************************************************)
EXTENDS Integers, Sequences, FiniteSets, TLC

VARIABLES
    pc,          \* position of the run: which call of main (or of diff) is next
    err,         \* the exception that ended the run ("" while none was raised)
    allFiles,    \* generateList: the files os.walk enumerated, in its order
    i,           \* generateList: number of loop iterations started
    f,           \* generateList: the loop variable f after the last iteration
    isPoster,    \* generateList: local isPoster after the last iteration
    isPaper,     \* generateList: local isPaper after the last iteration
    category,    \* generateList: local category after the last iteration
    papers,      \* the paper list generateList builds and returns
    posters,     \* the poster list generateList builds and returns
    keptPapers,  \* main: papers as rebound by removeOldRevisions
    keptPosters, \* main: posters as rebound by removeOldRevisions
    a,           \* diff: rows of reference manifest A
    b,           \* diff: rows of candidate manifest B
    newSubs,     \* diff: reported new submissions
    delSubs,     \* diff: reported deleted submissions
    contentModifies, \* diff: reported content modifications
    categoryChanges, \* diff: reported category changes
    dirs,        \* output: the directories os.makedirs created under newDir
    papersCsv,   \* output: the lines of Papers.csv (<<>> while not opened)
    postersCsv,  \* output: the lines of Posters.csv (<<>> while not opened)
    copied,      \* output: the pairs <<destination file, Path copied to it>>
    nCopied      \* copyFormated: records of the running loop already copied

scanVars == <<allFiles, i, f, isPoster, isPaper, category, papers, posters>>
keptVars == <<keptPapers, keptPosters>>
diffVars == <<a, b, newSubs, delSubs, contentModifies, categoryChanges>>
outVars == <<dirs, papersCsv, postersCsv, copied, nCopied>>
vars == <<pc, err, scanVars, keptVars, diffVars, outVars>>

\* nothing is written before main reaches line 444: generateList receives
\* dstDir and never uses it
NoOutput ==
    /\ dirs = {}
    /\ papersCsv = <<>>
    /\ postersCsv = <<>>
    /\ copied = {}
    /\ nCopied = 0

---------------------------------------------------------------------------
(* Characters and the str methods the source uses *)

LowerAZ == "abcdefghijklmnopqrstuvwxyz"
UpperAZ == "ABCDEFGHIJKLMNOPQRSTUVWXYZ"
DigitChars == "0123456789"
\* the characters of the model in code-point order (str comparison)
CodeOrder == "\t '-./0123456789ABCDEFGHIJKLMNOPQRSTUVWXYZ_abcdefghijklmnopqrstuvwxyz"

CharAt(s, k) == SubSeq(s, k, k)

\* position of character c in s, 0 when absent
IndexIn(c, s) ==
    IF \E k \in 1..Len(s) : CharAt(s, k) = c
    THEN CHOOSE k \in 1..Len(s) : CharAt(s, k) = c
    ELSE 0

CharsOf(s) == {CharAt(s, k) : k \in 1..Len(s)}

DigitSet == CharsOf(DigitChars)
SpaceSet == {" ", "\t"}
\* \w: letters, digits and the underscore
WordSet == CharsOf(LowerAZ) \cup CharsOf(UpperAZ) \cup DigitSet \cup {"_"}

IsDigit(c) == c \in DigitSet
IsSpace(c) == c \in SpaceSet
IsWordChar(c) == c \in WordSet

UpperOf == [c \in CharsOf(LowerAZ) |-> CharAt(UpperAZ, IndexIn(c, LowerAZ))]
LowerOf == [c \in CharsOf(UpperAZ) |-> CharAt(LowerAZ, IndexIn(c, UpperAZ))]
CodeOf == [c \in CharsOf(CodeOrder) |-> IndexIn(c, CodeOrder)]

upperChar(c) == IF c \in DOMAIN UpperOf THEN UpperOf[c] ELSE c
lowerChar(c) == IF c \in DOMAIN LowerOf THEN LowerOf[c] ELSE c

RECURSIVE upper(_)
upper(s) == IF s = "" THEN "" ELSE upperChar(CharAt(s, 1)) \o upper(SubSeq(s, 2, Len(s)))

RECURSIVE lower(_)
lower(s) == IF s = "" THEN "" ELSE lowerChar(CharAt(s, 1)) \o lower(SubSeq(s, 2, Len(s)))

\* Python's  t in s
Contains(s, t) == \E k \in 1..(Len(s) - Len(t) + 1) : SubSeq(s, k, k + Len(t) - 1) = t

\* Python's  s < t  on str: lexicographic by code point
RECURSIVE StrLess(_, _)
StrLess(s, t) ==
    IF t = "" THEN FALSE
    ELSE IF s = "" THEN TRUE
    ELSE IF CharAt(s, 1) = CharAt(t, 1)
         THEN StrLess(SubSeq(s, 2, Len(s)), SubSeq(t, 2, Len(t)))
         ELSE CodeOf[CharAt(s, 1)] < CodeOf[CharAt(t, 1)]

\* Python's  int(s)  on a string of decimal digits
RECURSIVE int(_)
int(s) ==
    IF s = "" THEN 0
    ELSE 10 * int(SubSeq(s, 1, Len(s) - 1)) + (IndexIn(CharAt(s, Len(s)), DigitChars) - 1)

\* Python's  sep.join(fields)
RECURSIVE join(_, _)
join(sep, fields) ==
    IF Len(fields) = 0 THEN ""
    ELSE IF Len(fields) = 1 THEN fields[1]
    ELSE fields[1] \o sep \o join(sep, Tail(fields))

\* Python's  s.split('_')
RECURSIVE split(_)
split(s) ==
    LET k == IndexIn("_", s)
    IN IF k = 0 THEN <<s>>
       ELSE <<SubSeq(s, 1, k - 1)>> \o split(SubSeq(s, k + 1, Len(s)))

\* first position >= k of s whose character is not in the class S
\* (Len(s) + 1 if there is none): where a greedy  [S]*  started at k ends
RECURSIVE SkipIn(_, _, _)
SkipIn(s, k, S) ==
    IF k > Len(s) \/ CharAt(s, k) \notin S THEN k ELSE SkipIn(s, k + 1, S)

SkipSpaces(s, k) == SkipIn(s, k, SpaceSet)
SkipUnderscores(s, k) == SkipIn(s, k, {"_"})
SkipDigits(s, k) == SkipIn(s, k, DigitSet)
SkipWord(s, k) == SkipIn(s, k, WordSet)

---------------------------------------------------------------------------
(* decode: the filename convention *)

\* the end (exclusive) of the match of  \s*\_+\s*  starting at k, 0 if none
SeparatorEnd(s, k) ==
    LET u == SkipSpaces(s, k)
        v == SkipUnderscores(s, u)
    IN IF v > u THEN SkipSpaces(s, v) ELSE 0

\* re.sub(r"\s*\_+\s*", "_", filename): every match, left to right, becomes "_"
RECURSIVE normalizeFrom(_, _)
normalizeFrom(s, k) ==
    IF k > Len(s) THEN ""
    ELSE LET e == SeparatorEnd(s, k)
         IN IF e > 0 THEN "_" \o normalizeFrom(s, e)
            ELSE CharAt(s, k) \o normalizeFrom(s, k + 1)

normalize(filename) == normalizeFrom(filename, 1)

None == "<None>"

\* variant of decode in which a name without index gets the index 0
decodeDefaultIndexZero(filename) ==
    LET fields == split(normalize(filename))
    IN IF Len(fields) \notin 4..6 THEN [raised |-> "ValueError", value |-> <<>>]
       ELSE [raised |-> "",
             value |-> <<fields[1], fields[2], fields[3], fields[4],
                         IF Len(fields) < 5 THEN "0" ELSE fields[5],
                         IF Len(fields) < 6 THEN "R0" ELSE upper(fields[6])>>]

\* decode(filename): the six fields, or ValueError ("uses wrong convention")
decode(filename) ==
    LET fields == split(normalize(filename))
    IN IF Len(fields) \notin 4..6 THEN [raised |-> "ValueError", value |-> <<>>]
       ELSE [raised |-> "",
             value |-> <<fields[1], fields[2], fields[3], fields[4],
                         IF Len(fields) < 5 THEN "1" ELSE fields[5],
                         IF Len(fields) < 6 THEN "R0" ELSE upper(fields[6])>>]

---------------------------------------------------------------------------
(* pattern = re.compile(r"(\w+)_R(\d+)") and pattern.search *)

\* _R<digit> starts at position k of s
RevisionAt(s, k) ==
    /\ k + 2 <= Len(s)
    /\ CharAt(s, k) = "_"
    /\ CharAt(s, k + 1) = "R"
    /\ IsDigit(CharAt(s, k + 2))

\* the positions k where (\w+) started at p can end so that _R(\d+) follows:
\* s[p..k-1] are word characters (at least one) and _R<digit> starts at k
patternEnds(s, p) == {k \in (p + 1)..(SkipWord(s, p) - 1) : RevisionAt(s, k)}

SetMin(S) == CHOOSE x \in S : \A y \in S : x <= y
SetMax(S) == CHOOSE x \in S : \A y \in S : x >= y

\* pattern.search(s): the leftmost start, (\w+) as long as possible, then (\d+)
\* as long as possible; groups 1 and 2, or no match (None)
patternSearch(s) ==
    LET starts == {p \in 1..Len(s) : patternEnds(s, p) # {}}
    IN IF starts = {} THEN [matched |-> FALSE, group1 |-> "", group2 |-> ""]
       ELSE LET p == SetMin(starts)
                k == SetMax(patternEnds(s, p))
            IN [matched |-> TRUE,
                group1 |-> SubSeq(s, p, k - 1),
                group2 |-> SubSeq(s, k + 2, SkipDigits(s, k + 2) - 1)]

---------------------------------------------------------------------------
(* os.path helpers *)

\* the last position of character c in s, 0 when absent
LastIndexIn(c, s) ==
    IF \E k \in 1..Len(s) : CharAt(s, k) = c
    THEN SetMax({k \in 1..Len(s) : CharAt(s, k) = c})
    ELSE 0

basename(p) == SubSeq(p, LastIndexIn("/", p) + 1, Len(p))
dirname(p) == SubSeq(p, 1, LastIndexIn("/", p) - 1)

\* os.path.splitext(base): split at the last dot, unless only dots precede it
splitext(base) ==
    LET d == LastIndexIn(".", base)
    IN IF d > 0 /\ \E k \in 1..(d - 1) : CharAt(base, k) # "."
       THEN <<SubSeq(base, 1, d - 1), SubSeq(base, d, Len(base))>>
       ELSE <<base, "">>

\* os.listdir(path) in a tree holding exactly the files in tree: the names of
\* the files in path and of the subdirectories of path
listdir(path, tree) ==
    {basename(g) : g \in {h \in tree : dirname(h) = path}}
    \cup {LET rest == SubSeq(dirname(g), Len(path) + 2, Len(dirname(g)))
              cut == IndexIn("/", rest)
          IN IF cut = 0 THEN rest ELSE SubSeq(rest, 1, cut - 1)
          : g \in {h \in tree : /\ Len(dirname(h)) > Len(path) + 1
                                /\ SubSeq(dirname(h), 1, Len(path) + 1) = path \o "/"}}

---------------------------------------------------------------------------
(* categorize *)

\* c = re.compile("Core|Non-core|Associated")
CategoryTokens == <<"Core", "Non-core", "Associated">>

\* a = re.compile(r"Hardware\sTestbed|...", flags=re.IGNORECASE)
AreaTokens ==
    <<"Hardware Testbed", "HVDC and FACTS", "Large Scale Testbed",
      "Other Categories", "Power Converter Design and Control",
      "Power Electronics Devices and Components",
      "Power System Control", "Power System Estimation",
      "Power System Modeling", "Power System Monitoring">>

\* an alternative of c matches at position p of s (case-sensitive literal)
categoryMatchesAt(s, p, tok) ==
    /\ p + Len(tok) - 1 <= Len(s)
    /\ SubSeq(s, p, p + Len(tok) - 1) = tok

\* an alternative of a matches at position p of s: letters ignoring case, and
\* \s (written as a space in AreaTokens) any whitespace character
areaMatchesAt(s, p, tok) ==
    /\ p + Len(tok) - 1 <= Len(s)
    /\ \A m \in 1..Len(tok) :
          IF CharAt(tok, m) = " "
          THEN IsSpace(CharAt(s, p + m - 1))
          ELSE lowerChar(CharAt(s, p + m - 1)) = lowerChar(CharAt(tok, m))

\* c.search(filepath).group(0), or None
categorySearch(filepath) ==
    LET hits == {p \in 1..Len(filepath) :
                    \E t \in 1..Len(CategoryTokens) :
                        categoryMatchesAt(filepath, p, CategoryTokens[t])}
    IN IF hits = {} THEN None
       ELSE LET p == SetMin(hits)
                t == SetMin({u \in 1..Len(CategoryTokens) :
                                categoryMatchesAt(filepath, p, CategoryTokens[u])})
            IN SubSeq(filepath, p, p + Len(CategoryTokens[t]) - 1)

\* a.search(filepath).group(0), or None
areaSearch(filepath) ==
    LET hits == {p \in 1..Len(filepath) :
                    \E t \in 1..Len(AreaTokens) :
                        areaMatchesAt(filepath, p, AreaTokens[t])}
    IN IF hits = {} THEN None
       ELSE LET p == SetMin(hits)
                t == SetMin({u \in 1..Len(AreaTokens) :
                                areaMatchesAt(filepath, p, AreaTokens[u])})
            IN SubSeq(filepath, p, p + Len(AreaTokens[t]) - 1)

\* categorize(filepath): (category, area), or ValueError when no area is found
categorize(filepath) ==
    IF areaSearch(filepath) = None
    THEN [raised |-> "ValueError", category |-> None, area |-> None]
    ELSE [raised |-> "", category |-> categorySearch(filepath),
          area |-> areaSearch(filepath)]

---------------------------------------------------------------------------
(* generateList: one iteration of the loop over allFiles *)

Range(seq) == {seq[k] : k \in 1..Len(seq)}

\* the entries of a directory listing that make paperHere true (line 277)
docEntries(entries) ==
    {n \in entries : Contains(lower(n), ".doc") \/ Contains(lower(n), ".docx")}

\* variant: a "Poster"/"Paper" directory decides the kind whatever the extension
kindSignalsPathFirst(path, ext, entries) ==
    LET e == lower(ext)
        pathPoster == Contains(path, "Poster")
        pathPaper == Contains(path, "Paper")
    IN IF e \notin {".doc", ".docx", ".ppt", ".pptx", ".pdf"}
       THEN [raised |-> "ValueError: Unsupported file format",
             isPoster |-> pathPoster, isPaper |-> pathPaper]
       ELSE IF pathPoster \/ pathPaper
       THEN [raised |-> "", isPoster |-> pathPoster, isPaper |-> pathPaper]
       ELSE IF e \in {".doc", ".docx"}
       THEN [raised |-> "", isPoster |-> FALSE, isPaper |-> TRUE]
       ELSE IF e \in {".ppt", ".pptx"}
       THEN [raised |-> "", isPoster |-> TRUE, isPaper |-> FALSE]
       ELSE [raised |-> "", isPoster |-> docEntries(entries) = {},
             isPaper |-> docEntries(entries) # {}]

\* lines 260-283: isPoster and isPaper from the directory path, the extension
\* and, for a .pdf with neither path signal, the directory listing
kindSignals(path, ext, entries) ==
    LET e == lower(ext)
        pathPoster == Contains(path, "Poster")
        pathPaper == Contains(path, "Paper")
    IN IF e = ".doc" \/ e = ".docx"
       THEN [raised |-> "", isPoster |-> pathPoster, isPaper |-> TRUE]
       ELSE IF e = ".ppt" \/ e = ".pptx"
       THEN [raised |-> "", isPoster |-> TRUE, isPaper |-> pathPaper]
       ELSE IF e = ".pdf"
       THEN IF ~(pathPoster \/ pathPaper)
            THEN [raised |-> "", isPoster |-> docEntries(entries) = {},
                  isPaper |-> docEntries(entries) # {}]
            ELSE [raised |-> "", isPoster |-> pathPoster, isPaper |-> pathPaper]
       ELSE [raised |-> "ValueError: Unsupported file format",
             isPoster |-> pathPoster, isPaper |-> pathPaper]

\* lines 274-279: the inner  for f in files  rebinds the outer loop variable f.
\* os.listdir's order is arbitrary: f ends as the first entry (in that order)
\* containing ".doc", so any such entry, or else as the last entry, so any
\* entry.  Outside that branch f is still the file's path.
loopVariableAfter(file, path, ext, entries) ==
    IF lower(ext) = ".pdf" /\ ~(Contains(path, "Poster") \/ Contains(path, "Paper"))
    THEN IF docEntries(entries) # {} THEN docEntries(entries) ELSE entries
    ELSE {file}

\* lines 256-305 for one file of allFiles; g is the value of f after the inner
\* loop.  The outcome: the exception raised ("" if none), the locals, and the
\* record appended.
iteration(file, tree, g, oldCategory) ==
    LET base == basename(file)
        path == dirname(file)
        name == splitext(base)[1]
        ext == splitext(base)[2]
        kind == kindSignals(path, ext, listdir(path, tree))
        cat == categorize(path)
        dec == decode(name)
        properName == join("_", dec.value)
        results == patternSearch(properName)
        fail(e, fv, c) == [raised |-> e, f |-> fv, isPoster |-> kind.isPoster,
                           isPaper |-> kind.isPaper, category |-> c, rec |-> <<>>]
    IN IF kind.raised # "" THEN fail(kind.raised, file, oldCategory)
       ELSE IF kind.isPoster /\ kind.isPaper
       THEN fail("ValueError: Confused for paper or poster", g, oldCategory)
       ELSE IF cat.raised # ""
       THEN fail("ValueError: does not contain research area", g, oldCategory)
       ELSE IF dec.raised # ""
       THEN fail("ValueError: uses wrong convention", g, cat.category)
       ELSE IF ~results.matched
       THEN fail("AttributeError", g, cat.category)
       ELSE [raised |-> "", f |-> g, isPoster |-> kind.isPoster,
             isPaper |-> kind.isPaper, category |-> cat.category,
             rec |-> IF kind.isPoster
                     THEN [Path |-> g, Name |-> properName,
                           BaseName |-> results.group1,
                           Revision |-> int(results.group2),
                           Extension |-> ext, Category |-> cat.category,
                           Area |-> cat.area]
                     ELSE [Path |-> g, Name |-> properName,
                           BaseName |-> results.group1,
                           Revision |-> int(results.group2),
                           Extension |-> ext, Area |-> cat.area]]

\* generateList, one iteration: an exception ends the run; after the last file
\* the lists are returned to main
ScanFile ==
    /\ pc = "generateList"
    /\ i < Len(allFiles)
    /\ LET file == allFiles[i + 1]
           base == basename(file)
           path == dirname(file)
           ext == splitext(base)[2]
       IN \E g \in loopVariableAfter(file, path, ext, listdir(path, Range(allFiles))) :
          \E r \in {iteration(file, Range(allFiles), g, category)} :
               /\ i' = i + 1
               /\ f' = r.f
               /\ isPoster' = r.isPoster
               /\ isPaper' = r.isPaper
               /\ category' = r.category
               /\ err' = r.raised
               /\ posters' = IF r.raised = "" /\ r.isPoster
                             THEN Append(posters, r.rec) ELSE posters
               /\ papers' = IF r.raised = "" /\ ~r.isPoster
                            THEN Append(papers, r.rec) ELSE papers
               /\ pc' = IF r.raised # "" THEN "failed"
                        ELSE IF i + 1 = Len(allFiles) THEN "findDuplicatePapers"
                        ELSE "generateList"
    /\ UNCHANGED <<allFiles, keptVars, diffVars, outVars>>

---------------------------------------------------------------------------
(* findDuplicate *)

\* lines 348-354: the loop with its list uniqNames; the flag duplicate at the end
RECURSIVE duplicateLoop(_, _, _, _)
duplicateLoop(fileList, k, uniqNames, duplicate) ==
    IF k > Len(fileList) THEN duplicate
    ELSE IF fileList[k].Name \notin Range(uniqNames)
         THEN duplicateLoop(fileList, k + 1, Append(uniqNames, fileList[k].Name), duplicate)
         ELSE duplicateLoop(fileList, k + 1, uniqNames, TRUE)

\* variant: the flag duplicate is never raised
findDuplicateNever(fileList) == FALSE

\* findDuplicate(fileList) raises ValueError
findDuplicate(fileList) == duplicateLoop(fileList, 1, <<>>, FALSE)

FindDuplicatePapers ==
    /\ pc = "findDuplicatePapers"
    /\ IF findDuplicate(papers)
       THEN pc' = "failed" /\ err' = "ValueError: Duplicate submission file found."
       ELSE pc' = "findDuplicatePosters" /\ err' = err
    /\ UNCHANGED <<scanVars, keptVars, diffVars, outVars>>

FindDuplicatePosters ==
    /\ pc = "findDuplicatePosters"
    /\ IF findDuplicate(posters)
       THEN pc' = "failed" /\ err' = "ValueError: Duplicate submission file found."
       ELSE pc' = "removeOldRevisionsPapers" /\ err' = err
    /\ UNCHANGED <<scanVars, keptVars, diffVars, outVars>>

---------------------------------------------------------------------------
(* removeOldRevisions *)

\* sorted(range(len(baseNames)), key=baseNames.__getitem__): the stable sort of
\* the positions of fileList by BaseName (positions count from 1 here)
sortedIndx(fileList) ==
    LET n == Len(fileList)
        before(m, j) ==
            \/ StrLess(fileList[m].BaseName, fileList[j].BaseName)
            \/ fileList[m].BaseName = fileList[j].BaseName /\ m < j
        rank(j) == 1 + Cardinality({m \in 1..n : before(m, j)})
    IN [pos \in 1..n |-> CHOOSE j \in 1..n : rank(j) = pos]

\* Python's sortedIndx[i-1]: position 0 - 1 is the last position
previous(pos, n) == IF pos = 1 THEN n ELSE pos - 1

\* variant: a later record of the same revision replaces the earlier one
revisionStepTieDrops(st, sIdx, fileList, pos) ==
    LET n == fileList[sIdx[pos]].BaseName
        r == fileList[sIdx[pos]].Revision
    IN IF n # st.prevName
       THEN [prevName |-> n, prevRev |-> r, indicesToDelete |-> st.indicesToDelete]
       ELSE IF r >= st.prevRev
       THEN [prevName |-> st.prevName, prevRev |-> r,
             indicesToDelete |->
                 st.indicesToDelete \cup {sIdx[previous(pos, Len(sIdx))]}]
       ELSE [prevName |-> st.prevName, prevRev |-> st.prevRev,
             indicesToDelete |-> st.indicesToDelete \cup {sIdx[pos]}]

\* lines 324-339: the body of the loop over sortedNames, at position pos
revisionStep(st, sIdx, fileList, pos) ==
    LET n == fileList[sIdx[pos]].BaseName
        r == fileList[sIdx[pos]].Revision
    IN IF n # st.prevName
       THEN [prevName |-> n, prevRev |-> r, indicesToDelete |-> st.indicesToDelete]
       ELSE IF r > st.prevRev
       THEN [prevName |-> st.prevName, prevRev |-> r,
             indicesToDelete |->
                 st.indicesToDelete \cup {sIdx[previous(pos, Len(sIdx))]}]
       ELSE IF r < st.prevRev
       THEN [prevName |-> st.prevName, prevRev |-> st.prevRev,
             indicesToDelete |-> st.indicesToDelete \cup {sIdx[pos]}]
       ELSE st

RECURSIVE revisionLoop(_, _, _, _)
revisionLoop(st, sIdx, fileList, pos) ==
    IF pos > Len(sIdx) THEN st.indicesToDelete
    ELSE revisionLoop(revisionStep(st, sIdx, fileList, pos), sIdx, fileList, pos + 1)

\* removeOldRevisions(fileList): the positions of the records returned,
\* set(sortedIndx) - set(indicesToDelete)
removeOldRevisions(fileList) ==
    (1..Len(fileList)) \
        revisionLoop([prevName |-> "", prevRev |-> -1, indicesToDelete |-> {}],
                     sortedIndx(fileList), fileList, 1)

\* the orders in which a set of positions can be iterated
Orderings(S) ==
    {o \in [1..Cardinality(S) -> S] : \A j, k \in 1..Cardinality(S) : j # k => o[j] # o[k]}

\* line 438: papers = removeOldRevisions(papers, verbose); the list is built by
\* iterating a set, whose order the language leaves open
RemoveOldRevisionsPapers ==
    /\ pc = "removeOldRevisionsPapers"
    /\ \E o \in Orderings(removeOldRevisions(papers)) :
           keptPapers' = [k \in 1..Len(o) |-> papers[o[k]]]
    /\ pc' = "removeOldRevisionsPosters"
    /\ UNCHANGED <<err, scanVars, keptPosters, diffVars, outVars>>

\* line 439: posters = removeOldRevisions(posters, verbose)
RemoveOldRevisionsPosters ==
    /\ pc = "removeOldRevisionsPosters"
    /\ \E o \in Orderings(removeOldRevisions(posters)) :
           keptPosters' = [k \in 1..Len(o) |-> posters[o[k]]]
    /\ pc' = "output"
    /\ UNCHANGED <<err, scanVars, keptPapers, diffVars, outVars>>

---------------------------------------------------------------------------
(* The output of main: folders, writeList2CSV, copyFormated *)

\* newDir, the folder main generates
dstDir == "G"

\* os.path.join of relative components
pathJoin(parts) == join("/", parts)

\* how an f-string prints a field: None prints as "None"
str(v) == IF v = None THEN "None" ELSE v

\* lines 444-447
MakeDirs ==
    /\ pc = "output"
    /\ dirs' = dirs \cup {pathJoin(<<dstDir, "Papers">>),
                          pathJoin(<<dstDir, "Posters", "Core">>),
                          pathJoin(<<dstDir, "Posters", "Non-core">>),
                          pathJoin(<<dstDir, "Posters", "Associated">>)}
    /\ pc' = "writeList2CSV"
    /\ UNCHANGED <<err, scanVars, keptVars, diffVars, papersCsv, postersCsv, copied, nCopied>>

\* lines 403-408 and 410-416: the lines printed for fileList from position
\* pos on, up to the first record whose Name decode rejects
RECURSIVE csvLines(_, _, _, _)
csvLines(fileList, pos, withCategory, lines) ==
    IF pos > Len(fileList) THEN [raised |-> "", lines |-> lines]
    ELSE LET p == fileList[pos]
             dec == decode(p.Name)
         IN IF dec.raised # ""
            THEN [raised |-> "ValueError: uses wrong convention", lines |-> lines]
            ELSE csvLines(fileList, pos + 1, withCategory,
                          Append(lines,
                                 join(", ", <<p.Name>>
                                            \o (IF withCategory THEN <<str(p.Category)>> ELSE <<>>)
                                            \o <<p.Area>> \o dec.value)))

\* writeList2CSV(papers, posters, dstDir): the two files, header first
writeList2CSV(paperList, posterList) ==
    LET paperHeader == "File name, Area, Last name, First name, University, Professor, Index, Revision"
        posterHeader == "File name, Category, Area, Last name, First name, University, Professor, Index, Revision"
        pl == csvLines(paperList, 1, FALSE, <<paperHeader>>)
        po == csvLines(posterList, 1, TRUE, <<posterHeader>>)
    IN IF pl.raised # ""
       THEN [raised |-> pl.raised, papersCsv |-> pl.lines, postersCsv |-> <<posterHeader>>]
       ELSE [raised |-> po.raised, papersCsv |-> pl.lines, postersCsv |-> po.lines]

\* the pc when copyFormated has copied nPapers papers and nPosters posters
copyNext(nPapers, nPosters) ==
    IF nPapers < Len(keptPapers) THEN "copyPapers"
    ELSE IF nPosters < Len(keptPosters) THEN "copyPosters"
    ELSE "batch2pdf"

\* line 452
WriteList2CSV ==
    /\ pc = "writeList2CSV"
    /\ \E r \in {writeList2CSV(keptPapers, keptPosters)} :
          /\ papersCsv' = r.papersCsv
          /\ postersCsv' = r.postersCsv
          /\ err' = r.raised
          /\ pc' = IF r.raised # "" THEN "failed" ELSE copyNext(0, 0)
    /\ UNCHANGED <<scanVars, keptVars, diffVars, dirs, copied, nCopied>>

\* whether shutil.copy2 finds the source: a file of the tree is there; any
\* other Path is relative to the working directory, which may hold such a file
sourceFound(path, tree) == IF path \in tree THEN {TRUE} ELSE {TRUE, FALSE}

\* shutil.copy2(src, dstFile) replaces dstFile
copy2(src, dstFile, files) == {c \in files : c[1] # dstFile} \cup {<<dstFile, src>>}

\* os.path.isfile(dstFile)
isfile(dstFile, files) == \E c \in files : c[1] = dstFile

\* lines 364-367 for one paper p; found: the source file exists
copyPaper(p, files, found) ==
    LET dstSubdir == pathJoin(<<dstDir, "Papers", p.Area>>)
        dstFile == pathJoin(<<dstSubdir, p.BaseName \o p.Extension>>)
    IN IF ~found
       THEN [raised |-> "FileNotFoundError", dirs |-> {dstSubdir}, files |-> files]
       ELSE [raised |-> "", dirs |-> {dstSubdir}, files |-> copy2(p.Path, dstFile, files)]

\* lines 374-381 for one poster p: os.path.join raises TypeError on None
copyPoster(p, files, found) ==
    IF p.Category = None
    THEN [raised |-> "TypeError", dirs |-> {}, files |-> files]
    ELSE LET dstSubdir == pathJoin(<<dstDir, "Posters", p.Category, p.Area>>)
             dstFile == pathJoin(<<dstSubdir, p.BaseName \o p.Extension>>)
         IN IF isfile(dstFile, files)
            THEN [raised |-> "ValueError: File already exists",
                  dirs |-> {dstSubdir}, files |-> files]
            ELSE IF ~found
            THEN [raised |-> "FileNotFoundError", dirs |-> {dstSubdir}, files |-> files]
            ELSE [raised |-> "", dirs |-> {dstSubdir},
                  files |-> copy2(p.Path, dstFile, files)]

\* copyFormated, one iteration of the loop over papers
CopyPaper ==
    /\ pc = "copyPapers"
    /\ \E found \in sourceFound(keptPapers[nCopied + 1].Path, Range(allFiles)) :
       \E r \in {copyPaper(keptPapers[nCopied + 1], copied, found)} :
          /\ dirs' = dirs \cup r.dirs
          /\ copied' = r.files
          /\ err' = r.raised
          /\ nCopied' = IF r.raised = "" /\ nCopied + 1 = Len(keptPapers) THEN 0 ELSE nCopied + 1
          /\ pc' = IF r.raised # "" THEN "failed" ELSE copyNext(nCopied + 1, 0)
    /\ UNCHANGED <<scanVars, keptVars, diffVars, papersCsv, postersCsv>>

\* copyFormated, one iteration of the loop over posters
CopyPoster ==
    /\ pc = "copyPosters"
    /\ \E found \in sourceFound(keptPosters[nCopied + 1].Path, Range(allFiles)) :
       \E r \in {copyPoster(keptPosters[nCopied + 1], copied, found)} :
          /\ dirs' = dirs \cup r.dirs
          /\ copied' = r.files
          /\ err' = r.raised
          /\ nCopied' = nCopied + 1
          /\ pc' = IF r.raised # "" THEN "failed"
                   ELSE copyNext(Len(keptPapers), nCopied + 1)
    /\ UNCHANGED <<scanVars, keptVars, diffVars, papersCsv, postersCsv>>

---------------------------------------------------------------------------
(* SubmissionListDiff.diff and ListDiff.listDiff: a and b are the rows that
   csv.DictReader reads from the manifests A and B *)

\* getName = re.compile(r"(.*)_R\d+"); getName.match(s): (.*) as long as
\* possible from the start of s, group 1, or no match (None)
getNameMatch(s) ==
    LET ends == {k \in 1..Len(s) : RevisionAt(s, k)}
    IN IF ends = {} THEN [matched |-> FALSE, group1 |-> ""]
       ELSE [matched |-> TRUE, group1 |-> SubSeq(s, 1, SetMax(ends) - 1)]

RECURSIVE stripZeros(_)
stripZeros(s) ==
    IF s # "" /\ CharAt(s, Len(s)) = "0" THEN stripZeros(SubSeq(s, 1, Len(s) - 1)) ELSE s

\* Python's  float(s)  on a plain decimal string of up to 15 significant
\* digits, where two doubles are equal iff the decimals are: the value as
\* <<integer part, fraction digits without trailing zeros>>, or ValueError
float(s) ==
    LET dot == IndexIn(".", s)
        whole == IF dot = 0 THEN s ELSE SubSeq(s, 1, dot - 1)
        frac == IF dot = 0 THEN "" ELSE SubSeq(s, dot + 1, Len(s))
    IN IF \/ whole \o frac = ""
          \/ SkipDigits(whole, 1) <= Len(whole)
          \/ SkipDigits(frac, 1) <= Len(frac)
       THEN [raised |-> "ValueError", value |-> <<>>]
       ELSE [raised |-> "", value |-> <<int(whole), stripZeros(frac)>>]

\* Python's  list.index(n): the first position of n
index(list, n) == SetMin({k \in 1..Len(list) : list[k] = n})

\* variant: a category change needs both Category and Area to differ
candidateStepBothDiffer(st, k, l) ==
    LET n == l.namesB[k]
    IN IF n \notin Range(l.namesA)
       THEN [st EXCEPT !.newSubs = Append(@, n)]
       ELSE LET indxA == index(l.namesA, n)
            IN [st EXCEPT
                   !.contentModifies =
                       IF l.mtimeA[indxA] # l.mtimeB[k] THEN Append(@, n) ELSE @,
                   !.categoryChanges =
                       IF l.catA[indxA] # l.catB[k] /\ l.areaA[indxA] # l.areaB[k]
                       THEN Append(@, n) ELSE @]

\* lines 38-45: the body of the loop over namesB at position k; l holds the
\* lists namesA, namesB, catA, catB, areaA, areaB, mtimeA, mtimeB
candidateStep(st, k, l) ==
    LET n == l.namesB[k]
    IN IF n \notin Range(l.namesA)
       THEN [st EXCEPT !.newSubs = Append(@, n)]
       ELSE LET indxA == index(l.namesA, n)
            IN [st EXCEPT
                   !.contentModifies =
                       IF l.mtimeA[indxA] # l.mtimeB[k] THEN Append(@, n) ELSE @,
                   !.categoryChanges =
                       IF l.catA[indxA] # l.catB[k] \/ l.areaA[indxA] # l.areaB[k]
                       THEN Append(@, n) ELSE @]

RECURSIVE candidateLoop(_, _, _)
candidateLoop(st, k, l) ==
    IF k > Len(l.namesB) THEN st
    ELSE candidateLoop(candidateStep(st, k, l), k + 1, l)

\* diff(A, B) up to the report: the four lists, or the exception raised
diff(rowsA, rowsB) ==
    LET none == [raised |-> "", newSubs |-> <<>>, delSubs |-> <<>>,
                 contentModifies |-> <<>>, categoryChanges |-> <<>>]
        named(rows) == \A k \in 1..Len(rows) : getNameMatch(rows[k]["File name"]).matched
        timed(rows) == \A k \in 1..Len(rows) : float(rows[k]["Last Modified"]).raised = ""
    IN IF ~(named(rowsA) /\ named(rowsB)) THEN [none EXCEPT !.raised = "AttributeError"]
       ELSE IF ~(timed(rowsA) /\ timed(rowsB)) THEN [none EXCEPT !.raised = "ValueError"]
       ELSE LET l == [namesA |-> [k \in 1..Len(rowsA) |-> getNameMatch(rowsA[k]["File name"]).group1],
                      namesB |-> [k \in 1..Len(rowsB) |-> getNameMatch(rowsB[k]["File name"]).group1],
                      catA |-> [k \in 1..Len(rowsA) |-> rowsA[k]["Category"]],
                      catB |-> [k \in 1..Len(rowsB) |-> rowsB[k]["Category"]],
                      areaA |-> [k \in 1..Len(rowsA) |-> rowsA[k]["Area"]],
                      areaB |-> [k \in 1..Len(rowsB) |-> rowsB[k]["Area"]],
                      mtimeA |-> [k \in 1..Len(rowsA) |-> float(rowsA[k]["Last Modified"]).value],
                      mtimeB |-> [k \in 1..Len(rowsB) |-> float(rowsB[k]["Last Modified"]).value]]
                inNamesB(n) == n \in Range(l.namesB)
            IN [candidateLoop(none, 1, l) EXCEPT
                   !.delSubs = SelectSeq(l.namesA, LAMBDA n : ~inNamesB(n))]

\* ListDiff.listDiff: the same statements as diff, line for line
listDiff(rowsA, rowsB) == diff(rowsA, rowsB)

\* python SubmissionListDiff.py A B
Diff ==
    /\ pc = "diff"
    /\ \E r \in {diff(a, b)} :
          /\ err' = r.raised
          /\ newSubs' = r.newSubs
          /\ delSubs' = r.delSubs
          /\ contentModifies' = r.contentModifies
          /\ categoryChanges' = r.categoryChanges
          /\ pc' = IF r.raised # "" THEN "failed" ELSE "diffReported"
    /\ UNCHANGED <<scanVars, keptVars, a, b, outVars>>

\* python ListDiff.py A B
ListDiff ==
    /\ pc = "listDiff"
    /\ \E r \in {listDiff(a, b)} :
          /\ err' = r.raised
          /\ newSubs' = r.newSubs
          /\ delSubs' = r.delSubs
          /\ contentModifies' = r.contentModifies
          /\ categoryChanges' = r.categoryChanges
          /\ pc' = IF r.raised # "" THEN "failed" ELSE "listDiffReported"
    /\ UNCHANGED <<scanVars, keptVars, a, b, outVars>>

---------------------------------------------------------------------------
(* The run of main up to revision resolution *)

\* the sequences of at most n distinct elements of S
SeqsNoRepeat(S, n) ==
    UNION {{q \in [1..m -> S] : \A j, k \in 1..m : j # k => q[j] # q[k]} : m \in 0..n}

\* os.walk lists a directory's files together: the files of one directory are
\* adjacent in allFiles
Contiguous(files) ==
    \A j, k \in 1..Len(files) :
        (j < k /\ dirname(files[j]) = dirname(files[k]))
            => \A m \in j..k : dirname(files[m]) = dirname(files[j])

\* the state when main calls generateList on a tree holding exactly files
InitRun(files) ==
    /\ allFiles = files
    /\ pc = IF Len(files) = 0 THEN "findDuplicatePapers" ELSE "generateList"
    /\ err = ""
    /\ i = 0
    /\ f = ""
    /\ isPoster = FALSE
    /\ isPaper = FALSE
    /\ category = None
    /\ papers = <<>>
    /\ posters = <<>>
    /\ keptPapers = <<>>
    /\ keptPosters = <<>>
    /\ a = <<>>
    /\ b = <<>>
    /\ newSubs = <<>>
    /\ delSubs = <<>>
    /\ contentModifies = <<>>
    /\ categoryChanges = <<>>
    /\ NoOutput

MaxFiles == 2

MainDirs ==
    {"S/Posters/Core/Hardware Testbed", "S/Papers/Hardware Testbed",
     "S/Hardware Testbed", "S/Posters/Misc"}
MainStems == {"Li_Bo_UT_Xu_1_R0", "Li_Bo_UT_Xu_1_R1", "Ma_Yi_UT"}
MainExts == {".pdf", ".docx", ".pptx", ".txt"}
MainFiles == {d \o "/" \o n \o e : d \in MainDirs, n \in MainStems, e \in MainExts}

Init == \E files \in SeqsNoRepeat(MainFiles, MaxFiles) : Contiguous(files) /\ InitRun(files)

Next ==
    \/ ScanFile
    \/ FindDuplicatePapers
    \/ FindDuplicatePosters
    \/ RemoveOldRevisionsPapers
    \/ RemoveOldRevisionsPosters
    \/ MakeDirs
    \/ WriteList2CSV
    \/ CopyPaper
    \/ CopyPoster

Spec == Init /\ [][Next]_vars

---------------------------------------------------------------------------
(* The scan alone, over directories and extensions of every kind *)

MaxScanFiles == 2

ScanDirs ==
    {"S/Posters/Core/Hardware Testbed", "S/Papers/Hardware Testbed",
     "S/Hardware Testbed", "S/Poster Papers/Hardware Testbed"}
ScanStems == {"Li_Bo_UT_Xu_1_R0", "Ma_Yi_UT_Xu_2_R1"}
ScanExts == {".pdf", ".docx", ".DOC", ".pptx", ".txt"}
ScanFiles == {d \o "/" \o n \o e : d \in ScanDirs, n \in ScanStems, e \in ScanExts}

InitScan ==
    \E files \in SeqsNoRepeat(ScanFiles, MaxScanFiles) : Contiguous(files) /\ InitRun(files)

NextScan == ScanFile

SpecScan == InitScan /\ [][NextScan]_vars

\* the file the last iteration of the scan processed, and its parts
LastFile == allFiles[i]
StemOf(file) == splitext(basename(file))[1]
ExtOf(file) == splitext(basename(file))[2]

\* The kind of a file by the rule list the code follows: an unsupported
\* extension fails; a signal is the directory path containing "Poster" (resp.
\* "Paper") or the extension being .ppt/.pptx (resp. .doc/.docx); both signals
\* fail (Confused); one signal decides; a .pdf with no signal is a Paper when
\* an entry of its directory contains ".doc" and a Poster otherwise.
RuleKind(file, tree) ==
    LET e == lower(ExtOf(file))
        posterSignal == Contains(dirname(file), "Poster") \/ e \in {".ppt", ".pptx"}
        paperSignal == Contains(dirname(file), "Paper") \/ e \in {".doc", ".docx"}
    IN IF e \notin {".pdf", ".ppt", ".pptx", ".doc", ".docx"} THEN "Unsupported"
       ELSE IF posterSignal /\ paperSignal THEN "Confused"
       ELSE IF posterSignal THEN "Poster"
       ELSE IF paperSignal THEN "Paper"
       ELSE IF \E n \in listdir(dirname(file), tree) : Contains(lower(n), ".doc")
       THEN "Paper"
       ELSE "Poster"

\* C5 (as amended): the scan gives every file the kind of the rule list
\* RuleKind: the extension is a signal of its own that a "Poster"/"Paper" path
\* does not override (a conflict fails as Confused), .ppt siblings are never
\* inspected, and a .pdf with no signal and no ".doc" entry beside it is taken
\* as a Poster instead of failing.  The lists hold one record per file of each
\* kind.
C5_KindFollowsRuleList ==
    i >= 1 =>
        \E k \in {RuleKind(LastFile, Range(allFiles))} :
            /\ (k = "Unsupported") <=> (err = "ValueError: Unsupported file format")
            /\ (k = "Confused") <=> (err = "ValueError: Confused for paper or poster")
            /\ k = "Poster" => isPoster /\ ~isPaper
            /\ k = "Paper" => isPaper /\ ~isPoster
            /\ err = "" =>
                /\ Len(posters) =
                     Cardinality({j \in 1..i : RuleKind(allFiles[j], Range(allFiles)) = "Poster"})
                /\ Len(papers) =
                     Cardinality({j \in 1..i : RuleKind(allFiles[j], Range(allFiles)) = "Paper"})

\* C5 witness: a .pdf with no signal and nothing beside it was taken as a
\* Poster, and then a .doc/.docx under a "Poster" path failed as Confused
C5_Witness ==
    /\ i = 2
    /\ ~Contains(dirname(allFiles[1]), "Poster")
    /\ ~Contains(dirname(allFiles[1]), "Paper")
    /\ lower(ExtOf(allFiles[1])) = ".pdf"
    /\ listdir(dirname(allFiles[1]), Range(allFiles)) = {basename(allFiles[1])}
    /\ Len(posters) = 1
    /\ Contains(dirname(allFiles[2]), "Poster")
    /\ ~Contains(dirname(allFiles[2]), "Paper")
    /\ lower(ExtOf(allFiles[2])) \in {".doc", ".docx"}
    /\ err = "ValueError: Confused for paper or poster"

\* C5 (original): a "Poster" (resp. "Paper") path gives that kind regardless
\* of the extension; without a path signal .ppt/.pptx is a Poster and
\* .doc/.docx a Paper; a .pdf without a path signal is a Paper by a ".doc"
\* sibling, a Poster by a ".ppt" sibling, and fails when there is neither
C5_Original ==
    (i >= 1 /\ lower(ExtOf(LastFile)) \in {".pdf", ".ppt", ".pptx", ".doc", ".docx"}) =>
        LET path == dirname(LastFile)
            e == lower(ExtOf(LastFile))
            siblings == listdir(path, Range(allFiles)) \ {basename(LastFile)}
            docSibling == \E n \in siblings : Contains(lower(n), ".doc")
            pptSibling == \E n \in siblings : Contains(lower(n), ".ppt")
            poster == isPoster /\ ~isPaper
                      /\ err # "ValueError: Confused for paper or poster"
            paper == isPaper /\ ~isPoster
                     /\ err # "ValueError: Confused for paper or poster"
        IN /\ (Contains(path, "Poster") /\ ~Contains(path, "Paper")) => poster
           /\ (Contains(path, "Paper") /\ ~Contains(path, "Poster")) => paper
           /\ (~Contains(path, "Poster") /\ ~Contains(path, "Paper")) =>
                /\ e \in {".ppt", ".pptx"} => poster
                /\ e \in {".doc", ".docx"} => paper
                /\ (e = ".pdf" /\ docSibling /\ ~pptSibling) => paper
                /\ (e = ".pdf" /\ pptSibling /\ ~docSibling) => poster
                /\ (e = ".pdf" /\ ~pptSibling /\ ~docSibling) => err # ""

\* C10: after a scan that raised nothing, every enumerated file has exactly
\* one record, in papers or in posters, and that record's Path is the file's
\* own full path
C10_PathIsSourceFile ==
    (pc \notin {"generateList", "failed"}) =>
        /\ Len(papers) + Len(posters) = Len(allFiles)
        /\ \A file \in Range(allFiles) :
              Cardinality({k \in 1..Len(papers) : papers[k].Path = file})
              + Cardinality({k \in 1..Len(posters) : posters[k].Path = file}) = 1

---------------------------------------------------------------------------
(* The filename convention: papers of one directory, names of every shape *)

MaxNames == 2

NamesDir == "S/Papers/Hardware Testbed"
NameStems ==
    {"Li_Bo_UT_Xu_1_R0", "Li_Bo_UT_Xu_1_R1", "Li_Bo_UT_Xu_1_R01", "Li_Bo_UT_Xu_1_r1",
     "Li_Bo_UT_Xu_2_R0", "Li_Bo_UT_Xu_1", "Li_Bo_UT_Xu", "Li__Bo _UT_ Xu_1_R0",
     "Ma_Yi_UT_Xu_1_R0",
     "Li_Bo_UT", "Li_Bo_UT_Xu_1_R0_x", "Li_ _Bo_UT_Xu",
     "Li_Bo_UT_Xu_a_R0", "Li_Bo_UT_Xu_1_V2", "Li_Bo_UT_Xu_1_R0a", "Li_Bo_UT_Xu_1_2",
     "Li-Wu_Bo_UT_Xu_1_R0", "Ma-Wu_Bo_UT_Xu_1_R1"}
NameFiles == {NamesDir \o "/" \o n \o ".pdf" : n \in NameStems}

InitNames == \E files \in SeqsNoRepeat(NameFiles, MaxNames) : InitRun(files)

NextNames == ScanFile \/ FindDuplicatePapers

SpecNames == InitNames /\ [][NextNames]_vars

\* the underscore-separated fields of a filename stem after normalization
FieldsOf(file) == split(normalize(StemOf(file)))

AllDigits(s) == s # "" /\ SkipDigits(s, 1) = Len(s) + 1

\* a name of the convention: 4 to 6 fields, a numeric index (field 5) when
\* present, a revision (field 6) of the form R<digits> in either case
WellFormed(fields) ==
    /\ Len(fields) \in 4..6
    /\ Len(fields) >= 5 => AllDigits(fields[5])
    /\ Len(fields) = 6 =>
          /\ CharAt(fields[6], 1) \in {"R", "r"}
          /\ AllDigits(SubSeq(fields[6], 2, Len(fields[6])))

\* identity + index of a well-formed name: the five fields, index "1" by default
IdentityIndex(fields) ==
    <<fields[1], fields[2], fields[3], fields[4],
      IF Len(fields) >= 5 THEN fields[5] ELSE "1">>

\* the revision number of a well-formed name, 0 by default
RevisionNumber(fields) ==
    IF Len(fields) = 6 THEN int(SubSeq(fields[6], 2, Len(fields[6]))) ELSE 0

\* In SpecNames every file is a paper and the scan stops at the first failure:
\* papers[k] is the record of allFiles[k].

\* C2: the BaseName of a record is identity+index, the first five fields
\* joined by "_", so two records share a BaseName iff their five fields agree
C2_BaseNameIsIdentityIndex ==
    \A j, k \in 1..Len(papers) :
        (WellFormed(FieldsOf(allFiles[j])) /\ WellFormed(FieldsOf(allFiles[k]))) =>
            /\ papers[k].BaseName = join("_", IdentityIndex(FieldsOf(allFiles[k])))
            /\ (papers[j].BaseName = papers[k].BaseName)
                 <=> (IdentityIndex(FieldsOf(allFiles[j])) = IdentityIndex(FieldsOf(allFiles[k])))

\* two records of well-formed names with the same identity, index and
\* revision number
SameSubmissionAndRevision(j, k) ==
    /\ WellFormed(FieldsOf(allFiles[j]))
    /\ WellFormed(FieldsOf(allFiles[k]))
    /\ IdentityIndex(FieldsOf(allFiles[j])) = IdentityIndex(FieldsOf(allFiles[k]))
    /\ RevisionNumber(FieldsOf(allFiles[j])) = RevisionNumber(FieldsOf(allFiles[k]))

\* C3: findDuplicate over the paper list fails iff two of its records have the
\* same identity, index and revision number
C3_DuplicateIffSameRevision ==
    /\ pc = "findDuplicatePosters" =>
          \A j, k \in 1..Len(papers) : j # k => ~SameSubmissionAndRevision(j, k)
    /\ err = "ValueError: Duplicate submission file found." =>
          \E j, k \in 1..Len(papers) : j # k /\ SameSubmissionAndRevision(j, k)

\* C6: no name that is not of the convention (wrong field count, non-numeric
\* index, revision not R<digits>) yields a record
C6_MalformedRejected ==
    \A k \in 1..Len(papers) : WellFormed(FieldsOf(allFiles[k]))

\* the canonical name of a well-formed name: the normalized string, with the
\* defaults 1 and R0 appended for the fields left out and the revision token
\* in upper case
Canonical(file) ==
    LET fields == FieldsOf(file)
    IN IF Len(fields) = 4 THEN normalize(StemOf(file)) \o "_1_R0"
       ELSE IF Len(fields) = 5 THEN normalize(StemOf(file)) \o "_R0"
       ELSE join("_", SubSeq(fields, 1, 5)) \o "_" \o upper(fields[6])

\* C7 (as amended): decoding a well-formed name and joining the six fields
\* gives the normalized string completed with the defaults (_1_R0 after 4
\* fields, _R0 after 5) and with the revision token in upper case; it is the
\* normalized string itself exactly for 6 fields with an upper-case R.  No
\* well-formed name fails to decode.
C7_RoundTripUpToDefaults ==
    /\ \A k \in 1..Len(papers) :
          WellFormed(FieldsOf(allFiles[k])) =>
              /\ papers[k].Name = Canonical(allFiles[k])
              /\ (papers[k].Name = normalize(StemOf(allFiles[k])))
                   <=> (Len(FieldsOf(allFiles[k])) = 6
                        /\ CharAt(FieldsOf(allFiles[k])[6], 1) = "R")
    /\ (pc = "failed" /\ i > Len(papers)) => ~WellFormed(FieldsOf(allFiles[i]))

\* C7 witness: a 4-field name and a 6-field name with a lower-case r decoded
C7_Witness ==
    /\ Len(papers) = 2
    /\ Len(FieldsOf(allFiles[1])) = 4
    /\ WellFormed(FieldsOf(allFiles[2]))
    /\ Len(FieldsOf(allFiles[2])) = 6
    /\ CharAt(FieldsOf(allFiles[2])[6], 1) = "r"

\* C7 (original): decode then join reproduces the normalized string of every
\* well-formed name
C7_Original ==
    \A k \in 1..Len(papers) :
        WellFormed(FieldsOf(allFiles[k])) =>
            papers[k].Name = normalize(StemOf(allFiles[k]))

---------------------------------------------------------------------------
(* categorize: one file per directory, categories in every letter case *)

CategoryDirs ==
    {"S/" \o k \o "/" \o c \o "/" \o ar :
        k \in {"Posters", "Papers"},
        c \in {"Core", "core", "CORE", "Non-core", "Non-Core", "non-core",
               "Associated", "ASSOCIATED", "General", "Encore"},
        ar \in {"Hardware Testbed", "hvdc and facts", "Misc"}}

InitCategorize ==
    \E d \in CategoryDirs : InitRun(<<d \o "/" \o "Li_Bo_UT_Xu_1_R0.pdf">>)

NextCategorize == ScanFile

SpecCategorize == InitCategorize /\ [][NextCategorize]_vars

\* s contains t in some letter case
ContainsIgnoreCase(s, t) == Contains(lower(s), lower(t))

\* C8: the category found for a path is null exactly when the path contains
\* none of Core, Non-core, Associated in any letter case
C8_CategoryIgnoresCase ==
    (i >= 1 /\ err = "") =>
        ((category = None)
            <=> ~\E t \in 1..Len(CategoryTokens) :
                    ContainsIgnoreCase(dirname(LastFile), CategoryTokens[t]))

---------------------------------------------------------------------------
(* removeOldRevisions alone: main after the scan and the duplicate check of a
   tree of papers *)

MaxRecords == 4

ResolveBaseNames == {"Li_Bo_UT_Xu_1", "Ma_Yi_UT_Xu_1"}
ResolveRevisions == {"R0", "R1", "R2", "R02"}
ResolveFiles ==
    {NamesDir \o "/" \o n \o "_" \o r \o ".pdf" : n \in ResolveBaseNames, r \in ResolveRevisions}

\* the record generateList appends for each of these files
ResolveRecord == [file \in ResolveFiles |-> iteration(file, {file}, file, None).rec]

InitResolve ==
    \E files \in SeqsNoRepeat(ResolveFiles, MaxRecords) :
        /\ allFiles = files
        /\ pc = "removeOldRevisionsPapers"
        /\ err = ""
        /\ i = Len(files)
        /\ f = IF Len(files) = 0 THEN "" ELSE files[Len(files)]
        /\ isPoster = FALSE
        /\ isPaper = (Len(files) > 0)
        /\ category = None
        /\ papers = [k \in 1..Len(files) |-> ResolveRecord[files[k]]]
        /\ posters = <<>>
        /\ keptPapers = <<>>
        /\ keptPosters = <<>>
        /\ a = <<>>
        /\ b = <<>>
        /\ newSubs = <<>>
        /\ delSubs = <<>>
        /\ contentModifies = <<>>
        /\ categoryChanges = <<>>
        /\ NoOutput

NextResolve == RemoveOldRevisionsPapers \/ RemoveOldRevisionsPosters

SpecResolve == InitResolve /\ [][NextResolve]_vars

\* the highest revision among the records of fileList with this BaseName
MaxRevision(fileList, baseName) ==
    SetMax({fileList[k].Revision : k \in {m \in 1..Len(fileList) : fileList[m].BaseName = baseName}})

\* the records of fileList holding the highest revision of their BaseName
Latest(fileList) ==
    {fileList[k] : k \in {m \in 1..Len(fileList) :
                            fileList[m].Revision = MaxRevision(fileList, fileList[m].BaseName)}}

\* no two records of fileList share BaseName and Revision
UniqueRevisions(fileList) ==
    \A j, k \in 1..Len(fileList) :
        j # k => ~(/\ fileList[j].BaseName = fileList[k].BaseName
                   /\ fileList[j].Revision = fileList[k].Revision)

Resolved == pc \in {"removeOldRevisionsPosters", "output"}

\* C1: of a list in which no two records share BaseName and Revision, in any
\* order, removeOldRevisions returns exactly one record per BaseName, the one
\* with the highest revision
C1_KeepsExactlyLatest ==
    (Resolved /\ UniqueRevisions(papers)) =>
        /\ Range(keptPapers) = Latest(papers)
        /\ Len(keptPapers) = Cardinality({papers[k].BaseName : k \in 1..Len(papers)})

\* C9: removeOldRevisions returns records of its input, each once, and among
\* them every record that holds the highest revision of its BaseName, also
\* when several records tie on it
C9_LatestSurvive ==
    Resolved =>
        /\ Range(keptPapers) \subseteq Range(papers)
        /\ Len(keptPapers) = Cardinality(Range(keptPapers))
        /\ Latest(papers) \subseteq Range(keptPapers)

\* C9 witness: two records tie on the highest revision of a BaseName, both
\* survive, and an older revision was dropped
C9_Witness ==
    /\ Resolved
    /\ Len(keptPapers) < Len(papers)
    /\ \E j, k \in 1..Len(keptPapers) :
          /\ j # k
          /\ keptPapers[j].BaseName = keptPapers[k].BaseName
          /\ keptPapers[j].Revision = keptPapers[k].Revision
          /\ keptPapers[j].Revision = MaxRevision(papers, keptPapers[j].BaseName)

---------------------------------------------------------------------------
(* The diff utilities on two manifests *)

MaxRowsA == 2
MaxRowsB == 2

Row(name, cat, area, mtime) ==
    ("File name" :> name) @@ ("Category" :> cat) @@ ("Area" :> area)
        @@ ("Last Modified" :> mtime)

RowsA ==
    {Row(n, c, "Hardware Testbed", "1000") :
        n \in {"Li_Bo_UT_Xu_1_R0", "Ma_Yi_UT_Xu_1_R0"}, c \in {"Core", "Associated"}}
RowsB ==
    {Row(n, "Core", ar, t) :
        n \in {"Li_Bo_UT_Xu_1_R1", "Ma_Yi_UT_Xu_1_R0", "Wu_Fa_UT_Xu_1_R0"},
        ar \in {"Hardware Testbed", "Power Electronics"},
        t \in {"1000.0", "2000"}}

InitDiff ==
    /\ a \in SeqsNoRepeat(RowsA, MaxRowsA)
    /\ b \in SeqsNoRepeat(RowsB, MaxRowsB)
    /\ pc \in {"diff", "listDiff"}
    /\ err = ""
    /\ allFiles = <<>>
    /\ i = 0
    /\ f = ""
    /\ isPoster = FALSE
    /\ isPaper = FALSE
    /\ category = None
    /\ papers = <<>>
    /\ posters = <<>>
    /\ keptPapers = <<>>
    /\ keptPosters = <<>>
    /\ newSubs = <<>>
    /\ delSubs = <<>>
    /\ contentModifies = <<>>
    /\ categoryChanges = <<>>
    /\ NoOutput

NextDiff == Diff \/ ListDiff

SpecDiff == InitDiff /\ [][NextDiff]_vars

\* File name without its trailing _R<digits>
StripRevision(s) ==
    LET ends == {k \in 1..Len(s) : RevisionAt(s, k) /\ SkipDigits(s, k + 2) = Len(s) + 1}
    IN IF ends = {} THEN s ELSE SubSeq(s, 1, SetMin(ends) - 1)

BaseNames(rows) == {StripRevision(rows[k]["File name"]) : k \in 1..Len(rows)}

UniqueBaseNames(rows) == Cardinality(BaseNames(rows)) = Len(rows)

\* the rows of the two manifests that carry base name n, paired
Pairs(n) ==
    {<<ra, rb>> \in Range(a) \X Range(b) :
        StripRevision(ra["File name"]) = n /\ StripRevision(rb["File name"]) = n}

Reported == pc \in {"diffReported", "listDiffReported"}

\* C4: for manifests whose base names are unique within each manifest, diff
\* and listDiff report a base name of B as new iff it is absent from A, a base
\* name of A as deleted iff it is absent from B, a base name of B as
\* content-modified iff A has it with a different Last Modified (as a number),
\* as category-changed iff A has it with a different Category or Area; new is
\* disjoint from the other three buckets
C4_DiffBuckets ==
    (Reported /\ UniqueBaseNames(a) /\ UniqueBaseNames(b)) =>
        /\ Range(newSubs) = BaseNames(b) \ BaseNames(a)
        /\ Range(delSubs) = BaseNames(a) \ BaseNames(b)
        /\ Range(contentModifies) =
              {n \in BaseNames(b) :
                  \E p \in Pairs(n) :
                      float(p[1]["Last Modified"]).value # float(p[2]["Last Modified"]).value}
        /\ Range(categoryChanges) =
              {n \in BaseNames(b) :
                  \E p \in Pairs(n) :
                      p[1]["Category"] # p[2]["Category"] \/ p[1]["Area"] # p[2]["Area"]}
        /\ Range(newSubs) \cap
              (Range(delSubs) \cup Range(contentModifies) \cup Range(categoryChanges)) = {}

\* C4 witness: a submission present in both manifests with different revision
\* suffixes and mtimes, whose area alone changed, next to a deleted and a new one
C4_Witness ==
    /\ Reported
    /\ a = <<Row("Li_Bo_UT_Xu_1_R0", "Core", "Hardware Testbed", "1000"),
             Row("Ma_Yi_UT_Xu_1_R0", "Core", "Hardware Testbed", "1000")>>
    /\ b = <<Row("Li_Bo_UT_Xu_1_R1", "Core", "Power Electronics", "2000"),
             Row("Wu_Fa_UT_Xu_1_R0", "Core", "Hardware Testbed", "2000")>>
    /\ contentModifies = <<"Li_Bo_UT_Xu_1">>
    /\ categoryChanges = <<"Li_Bo_UT_Xu_1">>
    /\ newSubs = <<"Wu_Fa_UT_Xu_1">>
    /\ delSubs = <<"Ma_Yi_UT_Xu_1">>

---------------------------------------------------------------------------
(* The whole run of main, up to the copy into the generated folder *)

MaxOutputFiles == 2

OutputDirs ==
    {"S/Posters/Core/Hardware Testbed", "S/Posters/Hardware Testbed",
     "S/Papers/Hardware Testbed", "S/Hardware Testbed"}
OutputStems == {"Li_Bo_UT_Xu_1_R1", "Li_Bo_UT_Xu_1_R01", "Ma_Yi_UT"}
OutputExts == {".pdf", ".docx"}
OutputFiles == {d \o "/" \o n \o e : d \in OutputDirs, n \in OutputStems, e \in OutputExts}

InitOutput ==
    \E files \in SeqsNoRepeat(OutputFiles, MaxOutputFiles) : Contiguous(files) /\ InitRun(files)

SpecOutput == InitOutput /\ [][Next]_vars

\* every record of fileList has a BaseName of its own
DistinctBaseNames(fileList) ==
    \A j, m \in 1..Len(fileList) : j # m => fileList[j].BaseName # fileList[m].BaseName

\* C11: a poster whose path has an area and no category token is a record
\* with Category null, and a run with such a poster raises no error: not in
\* the duplicate check, the revision resolution, the manifest writing or the
\* copy (stated for runs that nothing else can stop: the scan accepted every
\* file, every record has its own BaseName and its own file as Path)
C11_NullCategoryPasses ==
    (/\ i = Len(allFiles)
     /\ Len(papers) + Len(posters) = Len(allFiles)
     /\ \E j \in 1..Len(posters) : posters[j].Category = None
     /\ DistinctBaseNames(papers)
     /\ DistinctBaseNames(posters)
     /\ \A j \in 1..Len(papers) : papers[j].Path \in Range(allFiles)
     /\ \A j \in 1..Len(posters) : posters[j].Path \in Range(allFiles))
        => err = ""

\* the destination of a record: output subfolder + BaseName + Extension
PaperDst(p) == "G/Papers/" \o p.Area \o "/" \o p.BaseName \o p.Extension
PosterDst(p) ==
    "G/Posters/" \o p.Category \o "/" \o p.Area \o "/" \o p.BaseName \o p.Extension

\* the number of papers and of posters copyFormated has copied so far
PapersCopied ==
    IF pc = "copyPapers" THEN nCopied
    ELSE IF pc \in {"copyPosters", "batch2pdf"} THEN Len(keptPapers) ELSE 0
PostersCopied ==
    IF pc = "copyPosters" THEN nCopied
    ELSE IF pc = "batch2pdf" THEN Len(keptPosters) ELSE 0

\* C12: no copied submission is silently overwritten: while the copy runs
\* and after it, the destination of every record copied so far, paper or
\* poster, still holds that record's file (a second record with the same
\* destination stops the run instead of replacing it)
C12_NoSilentOverwrite ==
    /\ \A j \in 1..PapersCopied :
          <<PaperDst(keptPapers[j]), keptPapers[j].Path>> \in copied
    /\ \A j \in 1..PostersCopied :
          <<PosterDst(keptPosters[j]), keptPosters[j].Path>> \in copied

\* a folder, a manifest or a copied file exists
HasOutput == dirs # {} \/ papersCsv # <<>> \/ postersCsv # <<>> \/ copied # {}

\* two records of fileList have the same Name
DuplicateNames(fileList) ==
    \E j, m \in 1..Len(fileList) : j # m /\ fileList[j].Name = fileList[m].Name

\* the scan stopped at a file; findDuplicate stopped the run
ScanFailed == pc = "failed" /\ Len(papers) + Len(posters) < i
DuplicateFailed == err = "ValueError: Duplicate submission file found."

\* C13: output exists only after the scan gave a record for every file and
\* findDuplicate passed both lists, and only in the steps after revision
\* resolution; a run stopped by a file of the scan or by a duplicate has
\* created no folder, manifest or copied file
C13_NoOutputBeforeChecks ==
    /\ HasOutput =>
          /\ i = Len(allFiles)
          /\ Len(papers) + Len(posters) = Len(allFiles)
          /\ ~DuplicateNames(papers)
          /\ ~DuplicateNames(posters)
          /\ pc \in {"writeList2CSV", "copyPapers", "copyPosters", "batch2pdf", "failed"}
          /\ Len(keptPapers) <= Len(papers)
          /\ Len(keptPosters) <= Len(posters)
    /\ (ScanFailed \/ DuplicateFailed) => ~HasOutput

\* C13 witness: the scan gave a record for every file, the papers passed
\* findDuplicate, two posters have the same Name, and the run stopped there
\* with nothing written
C13_Witness ==
    /\ pc = "failed"
    /\ DuplicateFailed
    /\ i = Len(allFiles)
    /\ ~DuplicateNames(papers)
    /\ DuplicateNames(posters)
    /\ ~HasOutput

=============================================================================
